---- MODULE Spec2Model ----
(***************************************************************************)
(* Model of the Modbus client channel of MicroTBX-Modbus                   *)
(* (source/tbxmb_client.c): channel lifecycle, the event handler, the      *)
(* transceive helper and the public read/write operations, together with   *)
(* the collaborators the client consumes (transport, event task, OSAL      *)
(* semaphore, memory pool), which are modelled at their interface.         *)
(*                                                                         *)
(* One caller thread runs the public API one statement group at a time     *)
(* (pc); the event task and the transport run interleaved with it.         *)
(* TBX_ASSERT is modelled as in a build without assertions (execution      *)
(* continues); a failed assertion condition is recorded in call.asserted.  *)
(***************************************************************************)
EXTENDS Integers, Sequences, FiniteSets, TLC

(* ------------------------------------------------------------------------ *)
(* Bounds of the model.                                                     *)
(* ------------------------------------------------------------------------ *)
\* Number of blocks the heap can supply to the memory pool.
MaxBlocks == 2
\* Largest response timeout / turnaround delay (in ticks) handed to create.
MaxWait == 1
\* Capacity of the event queue.
MaxQueue == 1
\* Number of channels the application creates, and of requests it submits.
MaxCreates == 2
MaxRequests == 2

(* ------------------------------------------------------------------------ *)
(* Program constants.                                                       *)
(* ------------------------------------------------------------------------ *)
TBX_MB_CLIENT_CONTEXT_TYPE == 23
NULL == 0
TBX_OK == 1
TBX_ERROR == 0
TBX_MB_TP_NODE_ADDR_MAX == 247
TBX_MB_TP_NODE_ADDR_BROADCAST == 0
TBX_MB_FC04_READ_INPUT_REGISTERS == 4
TBX_MB_FC_EXCEPTION_MASK == 128
\* Count limits of the six operations (the num <= ... guards).
MaxNumReadCoils == 2000
MaxNumReadInputs == 2000
MaxNumReadInputRegs == 125
MaxNumReadHoldingRegs == 125
MaxNumWriteCoils == 1968
MaxNumWriteHoldingRegs == 123
\* txPacket->dataLen of a read-input-registers request.
ReadInputRegsReqLen == 4

Blocks == 1..MaxBlocks
\* The one transport layer object of the application.
Tp == 1
Waits == 0..MaxWait

(* ------------------------------------------------------------------------ *)
(* Fixed-width arithmetic.                                                  *)
(* ------------------------------------------------------------------------ *)
U8(x) == x % 256
U16(x) == x % 65536

RECURSIVE BitAnd(_, _)
BitAnd(a, b) ==
  IF a = 0 \/ b = 0 THEN 0
  ELSE (IF a % 2 = 1 /\ b % 2 = 1 THEN 1 ELSE 0) + 2 * BitAnd(a \div 2, b \div 2)

RECURSIVE BitOr(_, _)
BitOr(a, b) ==
  IF a = 0 THEN b
  ELSE IF b = 0 THEN a
  ELSE (IF a % 2 = 1 \/ b % 2 = 1 THEN 1 ELSE 0) + 2 * BitOr(a \div 2, b \div 2)

\* data[k] of a C byte array held as a sequence.
At(data, k) == data[k + 1]

\* Mutant: the two bytes read in little-endian order.
ExtractUInt16LE(arr, off) ==
  U16(BitOr(At(arr, off + 1) * 256, At(arr, off)))

\* return ((uint16_t)data[0] << 8U) | data[1];   (data = &arr[off])
TbxMbClientExtractUInt16BE(arr, off) ==
  U16(BitOr(At(arr, off) * 256, At(arr, off + 1)))

\* Mutant: the low byte is stored first.
StoreUInt16LE(value) ==
  << U8(value), U8(value \div 256) >>

\* data[0] = (uint8_t)(value >> 8U); data[1] = (uint8_t)value;
TbxMbClientStoreUInt16BE(value) ==
  << U8(value \div 256), U8(value) >>

(* ------------------------------------------------------------------------ *)
(* Inputs the caller and the environment draw from.                         *)
(* ------------------------------------------------------------------------ *)
\* Node addresses: broadcast, a server, and one above the maximum.
Nodes == {TBX_MB_TP_NODE_ADDR_BROADCAST, 5, TBX_MB_TP_NODE_ADDR_MAX + 1}
\* The node of another server on the bus (wrong-node responses).
OtherNode == {6}
Addrs == {100}
\* uint8_t counts around the limits of an operation with maximum m.
Nums8(m) == {0, 3, m + 1}
\* uint16_t counts around the limits of an operation with maximum m.
Nums16(m) == {0, 1, m, m + 1}
\* First register value of a well-formed response.
RegBases == {10, 255}

Ops == {"ReadCoils", "ReadInputs", "ReadInputRegs", "ReadHoldingRegs",
        "WriteCoils", "WriteHoldingRegs"}

(* ------------------------------------------------------------------------ *)
(* State.                                                                   *)
(* ------------------------------------------------------------------------ *)
VARIABLES
  pc,       \* position of the caller thread
  call,     \* the caller's current invocation: arguments, locals, result
  io,       \* what the current invocation did to its collaborators
  out,      \* elements of the caller's output array written by the invocation
  handles,  \* handles create returned to the caller; stale: freed since
  ctx,      \* the tTbxMbClientCtx held in every pool block
  sem,      \* the OSAL semaphores (one can exist per block)
  pool,     \* the memory pool: free blocks and number of blocks made
  tp,       \* the transport context: crosslink and both packets
  wire,     \* the bus: a response that may still arrive
  evQueue,  \* the event queue of the event task
  used      \* how many channels and requests the application has asked for

vars == << pc, call, io, out, handles, ctx, sem, pool, tp, wire, evQueue, used >>

NoCall ==
  [ op |-> "none", channel |-> NULL, transport |-> NULL, rt |-> 0, td |-> 0,
    node |-> 0, addr |-> 0, num |-> 0, ptr |-> FALSE,
    result |-> TBX_ERROR, asserted |-> FALSE ]

NoPacket == [ node |-> 0, code |-> 0, dataLen |-> 0, data |-> << >> ]

\* No request on the bus, no response in the response packet.
NoRequest == [ node |-> 0, num |-> 0 ]

NoIo ==
  [ getTx |-> 0, transmit |-> 0, take |-> 0, getRx |-> 0, rxDone |-> 0,
    txRes |-> "none", took |-> "none", waitTimeout |-> 0, waited |-> 0,
    semAtTx |-> 0, gaveSinceTx |-> FALSE, rxp |-> FALSE, rx |-> NoPacket,
    valid |-> "none", fault |-> "none", alloc |-> 0, grow |-> 0,
    txp |-> FALSE ]

\* Pool memory before its first use.
BlankCtx ==
  [ type |-> 0, processFcn |-> FALSE, responseTimeout |-> 0,
    turnaroundDelay |-> 0, responseSem |-> NULL, tpCtx |-> NULL ]


Init ==
  /\ pc = "idle"
  /\ call = NoCall
  /\ io = NoIo
  /\ out = << >>
  /\ handles = [ all |-> {}, stale |-> {} ]
  /\ ctx = [ b \in Blocks |-> BlankCtx ]
  /\ sem = [ b \in Blocks |-> [ alive |-> FALSE, count |-> 0 ] ]
  /\ pool = [ free |-> {}, made |-> 0 ]
  /\ tp = [ channelCtx |-> NULL, isClient |-> FALSE,
            txPacket |-> NoPacket, rxHeld |-> FALSE, rxFor |-> NoRequest ]
  /\ wire = [ pending |-> FALSE, req |-> NoRequest, txEvent |-> FALSE ]
  /\ evQueue = << >>
  /\ used = [ creates |-> 0, requests |-> 0 ]

(* ------------------------------------------------------------------------ *)
(* Memory pool (consumed): allocate, grow by blocks, release.               *)
(* ------------------------------------------------------------------------ *)
\* TbxMemPoolCreate(1U, size): one more block, if the heap still has room.
TbxMemPoolCreate(p, ok) ==
  IF ok /\ p.made < MaxBlocks
  THEN [ free |-> p.free \cup {p.made + 1}, made |-> p.made + 1 ]
  ELSE p

TbxMemPoolRelease(p, b) == [ p EXCEPT !.free = @ \cup {b} ]

(* ------------------------------------------------------------------------ *)
(* TbxMbClientCreate                                                        *)
(* ------------------------------------------------------------------------ *)
\* Mutant: the transport parameter is not checked.
CreateArgsUnchecked(transport) == TRUE

\* Line 79: the parameter check.
CreateArgsOk(transport) == transport # NULL

\* Lines 69-79: entry and parameter check.
CreateCall(transport, rt, td) ==
  /\ pc = "idle"
  /\ transport # NULL => used.creates < MaxCreates
  /\ used' = IF transport # NULL THEN [ used EXCEPT !.creates = @ + 1 ] ELSE used
  /\ call' = [ NoCall EXCEPT !.op = "Create", !.transport = transport,
                             !.rt = rt, !.td = td, !.result = NULL,
                             !.asserted = (transport = NULL) ]
  /\ pc' = IF CreateArgsOk(transport) THEN "c_alloc" ELSE "ret"
  /\ UNCHANGED << io, out, handles, ctx, sem, pool, tp, wire, evQueue >>

\* Mutant: the pool is grown again when the growth did not help.
PoolAfterGrowTwice(p, grows) ==
  IF p.free # {} THEN p ELSE TbxMemPoolCreate(TbxMemPoolCreate(p, grows), grows)

\* The pool after the allocation of lines 82-91, growth included.
PoolAfterGrow(p, grows) ==
  IF p.free # {} THEN p ELSE TbxMemPoolCreate(p, grows)

\* Lines 82-95: allocate, grow the pool once if that failed, allocate again.
\* io counts the calls of TbxMemPoolAllocate and of TbxMemPoolCreate.
CreateAlloc ==
  /\ pc = "c_alloc"
  /\ \E grows \in BOOLEAN :
       LET p == PoolAfterGrow(pool, grows) IN
         IF p.free = {}
         THEN /\ pool' = p
              /\ call' = [ call EXCEPT !.asserted = TRUE ]
              /\ pc' = "ret"
         ELSE \E b \in p.free :
                /\ pool' = [ p EXCEPT !.free = @ \ {b} ]
                /\ call' = [ call EXCEPT !.channel = b ]
                /\ pc' = "c_init"
  /\ io' = [ io EXCEPT !.alloc = IF pool.free = {} THEN 2 ELSE 1,
                       !.grow = IF pool.free = {} THEN 1 ELSE 0 ]
  /\ UNCHANGED << out, handles, ctx, sem, tp, wire, evQueue, used >>

\* Lines 105-111: the fields of the new context and its semaphore.
CreateInit ==
  /\ pc = "c_init"
  /\ ctx' = [ ctx EXCEPT ![call.channel] =
                [ @ EXCEPT !.type = TBX_MB_CLIENT_CONTEXT_TYPE,
                           !.processFcn = TRUE,
                           !.responseTimeout = call.rt,
                           !.turnaroundDelay = call.td,
                           !.responseSem = call.channel ] ]
  /\ sem' = [ sem EXCEPT ![call.channel] = [ alive |-> TRUE, count |-> 0 ] ]
  /\ pc' = "c_link"
  /\ UNCHANGED << call, io, out, handles, pool, tp, wire, evQueue, used >>

\* Line 112: newClientCtx->tpCtx = tpCtx.
CreateLinkChannel ==
  /\ pc = "c_link"
  /\ ctx' = [ ctx EXCEPT ![call.channel].tpCtx = call.transport ]
  /\ pc' = "c_back"
  /\ UNCHANGED << call, io, out, handles, sem, pool, tp, wire, evQueue, used >>

\* Lines 113-116: the transport's back-reference, isClient, the result.
CreateLinkTransport ==
  /\ pc = "c_back"
  /\ tp' = [ tp EXCEPT !.channelCtx = call.channel, !.isClient = TRUE ]
  /\ call' = [ call EXCEPT !.result = call.channel ]
  /\ pc' = "ret"
  /\ UNCHANGED << io, out, handles, ctx, sem, pool, wire, evQueue, used >>

(* ------------------------------------------------------------------------ *)
(* TbxMbClientFree                                                          *)
(* ------------------------------------------------------------------------ *)
\* Lines 130-141: entry, parameter check, context type assertion.
FreeCall(channel) ==
  /\ pc = "idle"
  /\ call' = [ NoCall EXCEPT !.op = "Free", !.channel = channel,
                 !.asserted = \/ channel = NULL
                              \/ ctx[channel].type # TBX_MB_CLIENT_CONTEXT_TYPE ]
  /\ pc' = IF channel # NULL THEN "f_sem" ELSE "ret"
  /\ UNCHANGED << io, out, handles, ctx, sem, pool, tp, wire, evQueue, used >>

\* TbxMbOsalSemFree(s): releases the semaphore; nothing to release for NULL.
TbxMbOsalSemFree(sm, s) ==
  IF s = NULL THEN sm ELSE [ sm EXCEPT ![s].alive = FALSE ]

\* Line 143: release the response semaphore.
FreeSem ==
  /\ pc = "f_sem"
  /\ sem' = TbxMbOsalSemFree(sem, ctx[call.channel].responseSem)
  /\ pc' = "f_crit"
  /\ UNCHANGED << call, io, out, handles, ctx, pool, tp, wire, evQueue, used >>

\* The context as lines 147-149 leave it: unlinked, type tag cleared.
FreeUnlinked(c) == [ c EXCEPT !.tpCtx = NULL, !.type = 0 ]

\* The context as lines 150-152 leave it.
FreeInvalidated(c) == [ c EXCEPT !.processFcn = FALSE, !.responseSem = NULL ]

\* Lines 145-149: the critical section is entered, both ends of the
\* crosslink are cleared and the type tag is reset. Line 146 writes through
\* clientCtx->tpCtx, which is a null pointer in a context already freed.
FreeCritical ==
  /\ pc = "f_crit"
  /\ IF ctx[call.channel].tpCtx = NULL
     THEN /\ io' = [ io EXCEPT !.fault = "null tpCtx" ]
          /\ pc' = "fault"
          /\ UNCHANGED << ctx, tp >>
     ELSE /\ tp' = [ tp EXCEPT !.channelCtx = NULL ]
          /\ ctx' = [ ctx EXCEPT ![call.channel] = FreeUnlinked(@) ]
          /\ pc' = "f_inval"
          /\ io' = io
  /\ UNCHANGED << call, out, handles, sem, pool, wire, evQueue, used >>

\* Lines 150-153: the handler and semaphore references are cleared and the
\* critical section is left. The critical section keeps other critical
\* sections out; the event handler reads the context without entering one,
\* so the event task can run between FreeCritical and this step.
FreeCriticalEnd ==
  /\ pc = "f_inval"
  /\ ctx' = [ ctx EXCEPT ![call.channel] = FreeInvalidated(@) ]
  /\ pc' = "f_rel"
  /\ UNCHANGED << call, io, out, handles, sem, pool, tp, wire, evQueue, used >>

\* Line 155: the block goes back to the pool.
FreeRelease ==
  /\ pc = "f_rel"
  /\ pool' = TbxMemPoolRelease(pool, call.channel)
  /\ pc' = "ret"
  /\ UNCHANGED << call, io, out, handles, ctx, sem, tp, wire, evQueue, used >>

(* ------------------------------------------------------------------------ *)
(* OSAL semaphore (consumed): binary, give and take with timeout.           *)
(* ------------------------------------------------------------------------ *)
\* TbxMbOsalSemGive(s, fromIsr): the semaphore holds at most one give.
TbxMbOsalSemGive(sm, s) ==
  IF s = NULL THEN sm ELSE [ sm EXCEPT ![s].count = 1 ]

\* The semaphore after a successful take.
SemTaken(sm, s) == [ sm EXCEPT ![s].count = 0 ]

(* ------------------------------------------------------------------------ *)
(* TbxMbClientReadInputRegs and TbxMbClientTransceive                       *)
(* ------------------------------------------------------------------------ *)
\* Mutant: the parameter check without the upper limit of the count.
ReadInputRegsArgsNoMax(channel, node, num, ptr) ==
  /\ channel # NULL
  /\ node <= TBX_MB_TP_NODE_ADDR_MAX
  /\ num >= 1
  /\ ptr

\* Lines 424-425: the parameter check.
ReadInputRegsArgsOk(channel, node, num, ptr) ==
  /\ channel # NULL
  /\ node <= TBX_MB_TP_NODE_ADDR_MAX
  /\ num >= 1
  /\ num <= MaxNumReadInputRegs
  /\ ptr

\* Lines 449-453: the request type.
IsBroadcast(node) == node = TBX_MB_TP_NODE_ADDR_BROADCAST

\* Lines 411-430: entry, parameter check, context type assertion.
ReadInputRegsCall(channel, node, addr, num, ptr) ==
  /\ pc = "idle"
  /\ LET ok == ReadInputRegsArgsOk(channel, node, num, ptr) IN
       /\ ok => used.requests < MaxRequests
       /\ used' = IF ok THEN [ used EXCEPT !.requests = @ + 1 ] ELSE used
       /\ call' = [ NoCall EXCEPT !.op = "ReadInputRegs", !.channel = channel,
                      !.node = node, !.addr = addr, !.num = num, !.ptr = ptr,
                      !.asserted = \/ ~ok
                                   \/ ctx[channel].type # TBX_MB_CLIENT_CONTEXT_TYPE ]
       /\ pc' = IF ok THEN "r_gettx" ELSE "ret"
  /\ UNCHANGED << io, out, handles, ctx, sem, pool, tp, wire, evQueue >>

\* Mutant: the number of registers is stored before the starting address.
ReadInputRegsRequestNumFirst(node, addr, num) ==
  [ node |-> node, code |-> TBX_MB_FC04_READ_INPUT_REGISTERS,
    dataLen |-> ReadInputRegsReqLen,
    data |-> TbxMbClientStoreUInt16BE(num) \o TbxMbClientStoreUInt16BE(addr) ]

\* Lines 440-446: the request packet.
ReadInputRegsRequest(node, addr, num) ==
  [ node |-> node, code |-> TBX_MB_FC04_READ_INPUT_REGISTERS,
    dataLen |-> ReadInputRegsReqLen,
    data |-> TbxMbClientStoreUInt16BE(addr) \o TbxMbClientStoreUInt16BE(num) ]

\* Mutant: the request is transmitted without access to the request packet.
AfterGetTxUnchecked(granted) == "t_tx"

\* Line 437: where ReadInputRegs continues once getTxPacketFcn has returned.
AfterGetTx(granted) == IF granted THEN "t_tx" ELSE "ret"

\* Lines 433-446: write access to the request packet, then its contents.
\* clientCtx->tpCtx is a null pointer in a context that has been freed.
ReadInputRegsGetTx ==
  /\ pc = "r_gettx"
  /\ IF ctx[call.channel].tpCtx = NULL
     THEN /\ io' = [ io EXCEPT !.fault = "null tpCtx" ]
          /\ pc' = "fault"
          /\ tp' = tp
     ELSE \E granted \in BOOLEAN :
            /\ io' = [ io EXCEPT !.getTx = @ + 1, !.txp = granted ]
            /\ tp' = IF granted
                     THEN [ tp EXCEPT !.txPacket =
                              ReadInputRegsRequest(call.node, call.addr, call.num) ]
                     ELSE tp
            /\ pc' = AfterGetTx(granted)
  /\ UNCHANGED << call, out, handles, ctx, sem, pool, wire, evQueue, used >>

\* Lines 270-276: the wait time of the request.
WaitTimeout(c, isBroadcast) ==
  IF isBroadcast THEN c.turnaroundDelay ELSE c.responseTimeout

\* Mutant: a broadcast request is processed like a unicast one.
ProcessResponseOfBroadcast(result, isBroadcast) == result = TBX_OK

\* Line 462: is there a response to process.
ProcessResponse(result, isBroadcast) == result = TBX_OK /\ ~isBroadcast

\* Mutant: the response is fetched whatever Transceive returned.
AfterTransceiveAlwaysResponse(result, isBroadcast) == "r_getrx"

\* Where ReadInputRegs continues once Transceive has returned.
AfterTransceive(result, isBroadcast) ==
  IF ProcessResponse(result, isBroadcast) THEN "r_getrx" ELSE "ret"

\* Mutant: the result of transmit is not looked at before the wait.
SubmittedUnchecked(res) == TRUE

\* Line 283: does Transceive go on to the semaphore after transmit returned res.
Submitted(res) == res = TBX_OK

\* Lines 270-283: wait time, then the transport's transmit. An accepted
\* unicast request puts a request on the bus that a server may answer.
TransceiveTransmit ==
  /\ pc = "t_tx"
  /\ \E res \in {TBX_OK, TBX_ERROR} :
       LET c == ctx[call.channel]
           bc == IsBroadcast(call.node) IN
         /\ io' = [ io EXCEPT !.transmit = @ + 1,
                              !.txRes = IF res = TBX_OK THEN "ok" ELSE "error",
                              !.waitTimeout = WaitTimeout(c, bc),
                              !.semAtTx = sem[c.responseSem].count ]
         /\ call' = [ call EXCEPT !.result = res ]
         /\ wire' = IF res = TBX_OK
                    THEN [ wire EXCEPT !.txEvent = TRUE,
                             !.pending = IF bc THEN @ ELSE TRUE,
                             !.req = IF bc THEN @
                                     ELSE [ node |-> call.node, num |-> call.num ] ]
                    ELSE wire
         /\ pc' = IF Submitted(res) THEN "t_take" ELSE AfterTransceive(res, bc)
  /\ UNCHANGED << out, handles, ctx, sem, pool, tp, evQueue, used >>

\* Line 286, a give is pending: TbxMbOsalSemTake returns TBX_TRUE at once
\* (pc = "t_take") or as soon as the waiting caller is woken (pc = "t_wait").
TransceiveTakeSignal ==
  /\ pc \in {"t_take", "t_wait"}
  /\ LET s == ctx[call.channel].responseSem IN
       /\ sem[s].count = 1
       /\ sem' = SemTaken(sem, s)
  /\ io' = [ io EXCEPT !.take = IF pc = "t_take" THEN @ + 1 ELSE @,
                       !.took = "signal" ]
  /\ pc' = AfterTransceive(call.result, IsBroadcast(call.node))
  /\ UNCHANGED << call, out, handles, ctx, pool, tp, wire, evQueue, used >>

\* Line 286, no give is pending: the caller blocks in TbxMbOsalSemTake.
TransceiveTakeBlock ==
  /\ pc = "t_take"
  /\ sem[ctx[call.channel].responseSem].count = 0
  /\ io' = [ io EXCEPT !.take = @ + 1 ]
  /\ pc' = "t_wait"
  /\ UNCHANGED << call, out, handles, ctx, sem, pool, tp, wire, evQueue, used >>

\* One tick of the clock passes while the caller is blocked.
Tick ==
  /\ pc = "t_wait"
  /\ io.waited < io.waitTimeout
  /\ io' = [ io EXCEPT !.waited = @ + 1 ]
  /\ UNCHANGED << pc, call, out, handles, ctx, sem, pool, tp, wire, evQueue, used >>

\* Mutant: a timeout is an error for a broadcast request too.
TimeoutResultAlwaysError(result, isBroadcast) == TBX_ERROR

\* Lines 286-297: the result of Transceive after a semaphore timeout.
TimeoutResult(result, isBroadcast) ==
  IF ~isBroadcast THEN TBX_ERROR ELSE result

\* Lines 286-297: TbxMbOsalSemTake returns TBX_FALSE once the wait time passed.
TransceiveTimeout ==
  /\ pc = "t_wait"
  /\ io.waited = io.waitTimeout
  /\ LET bc == IsBroadcast(call.node)
         r == TimeoutResult(call.result, bc) IN
       /\ call' = [ call EXCEPT !.result = r ]
       /\ pc' = AfterTransceive(r, bc)
  /\ io' = [ io EXCEPT !.took = "timeout" ]
  /\ UNCHANGED << out, handles, ctx, sem, pool, tp, wire, evQueue, used >>

\* Mutant: without a response packet the call returns at once.
AfterGetRxNoRelease(granted) == IF granted THEN "r_validate" ELSE "ret"

\* Lines 471 and 497-505: where ReadInputRegs continues once getRxPacketFcn
\* has returned.
AfterGetRx(granted) == IF granted THEN "r_validate" ELSE "r_done"

\* Lines 465-471 and 497-501: read access to the response packet, which the
\* transport grants for a packet it holds for the client, and may refuse.
ReadInputRegsGetRx ==
  /\ pc = "r_getrx"
  /\ \E granted \in IF tp.rxHeld THEN BOOLEAN ELSE {FALSE} :
       /\ io' = [ io EXCEPT !.getRx = @ + 1, !.rxp = granted ]
       /\ call' = [ call EXCEPT !.result = IF granted THEN @ ELSE TBX_ERROR,
                                !.asserted = @ \/ ~granted ]
       /\ pc' = AfterGetRx(granted)
  /\ UNCHANGED << out, handles, ctx, sem, pool, tp, wire, evQueue, used >>

\* The payload of a response holding n registers that count up from base.
RECURSIVE RegBytes(_, _, _)
RegBytes(n, k, base) ==
  IF k >= n THEN << >>
  ELSE TbxMbClientStoreUInt16BE(U16(base + k)) \o RegBytes(n, k + 1, base)

RespPacket(node, code, data) ==
  [ node |-> node, code |-> code, dataLen |-> Len(data), data |-> data ]

\* What may come back for the request on the bus: the right answer, the
\* answer of another node, an exception, one register too few, a byte
\* missing at the end, and the answer to another function.
Responses(w) ==
  LET good(base) == << U8(2 * w.num) >> \o RegBytes(w.num, 0, base) IN
    { RespPacket(w.node, TBX_MB_FC04_READ_INPUT_REGISTERS, good(b)) : b \in RegBases }
    \cup { RespPacket(n, TBX_MB_FC04_READ_INPUT_REGISTERS, good(10)) : n \in OtherNode }
    \cup { RespPacket(w.node, TBX_MB_FC04_READ_INPUT_REGISTERS + TBX_MB_FC_EXCEPTION_MASK,
                      << 2 >>) }
    \cup { RespPacket(w.node, TBX_MB_FC04_READ_INPUT_REGISTERS,
                      << U8(2 * (w.num - 1)) >> \o RegBytes(w.num - 1, 0, 10)) }
    \cup { RespPacket(w.node, TBX_MB_FC04_READ_INPUT_REGISTERS,
                      SubSeq(good(10), 1, 2 * w.num)) }
    \cup { RespPacket(w.node, TBX_MB_FC04_READ_INPUT_REGISTERS - 1, good(10)) }

\* Lines 477-481: is the response to be rejected.
ResponseInvalid(rx, node, num) ==
  LET byteCount == At(rx.data, 0) IN
    \/ rx.node # node
    \/ BitAnd(rx.code, TBX_MB_FC_EXCEPTION_MASK) # 0
    \/ byteCount # num * 2
    \/ rx.dataLen # byteCount + 1

\* Lines 489-494: the register values of the response, by array index.
ResponseRegs(rx, num) ==
  [ idx \in 0..(num - 1) |-> TbxMbClientExtractUInt16BE(rx.data, 1 + idx * 2) ]

\* Mutant: the registers are stored before the response node is compared.
InputRegsWrittenBeforeNodeCheck(rx, node, num) ==
  IF ResponseInvalid(rx, rx.node, num) THEN << >> ELSE ResponseRegs(rx, num)

\* The elements of inputRegs that lines 477-495 write.
InputRegsWritten(rx, node, num) ==
  IF ResponseInvalid(rx, node, num) THEN << >> ELSE ResponseRegs(rx, num)

\* Lines 477-495: validate the response, then store the register values.
\* The bytes of the response the transport stored are drawn here, where the
\* client reads them for the first time.
ReadInputRegsValidate ==
  /\ pc = "r_validate"
  /\ \E rx \in Responses(tp.rxFor) :
       LET bad == ResponseInvalid(rx, call.node, call.num) IN
         /\ call' = [ call EXCEPT !.result = IF bad THEN TBX_ERROR ELSE @ ]
         /\ io' = [ io EXCEPT !.valid = IF bad THEN "invalid" ELSE "valid",
                              !.rx = rx ]
         /\ out' = InputRegsWritten(rx, call.node, call.num)
  /\ pc' = "r_done"
  /\ UNCHANGED << handles, ctx, sem, pool, tp, wire, evQueue, used >>

\* Line 505: receptionDoneFcn hands the response packet back; the transport
\* may reuse it, so its contents are no longer defined.
ReadInputRegsDone ==
  /\ pc = "r_done"
  /\ io' = [ io EXCEPT !.rxDone = @ + 1 ]
  /\ tp' = [ tp EXCEPT !.rxHeld = FALSE, !.rxFor = NoRequest ]
  /\ pc' = "ret"
  /\ UNCHANGED << call, out, handles, ctx, sem, pool, wire, evQueue, used >>

(* ------------------------------------------------------------------------ *)
(* The five operations that are not implemented yet.                        *)
(* ------------------------------------------------------------------------ *)
\* Lines 334-335.
ReadCoilsArgsOk(channel, node, num, ptr) ==
  /\ channel # NULL
  /\ node <= TBX_MB_TP_NODE_ADDR_MAX
  /\ num >= 1
  /\ num <= MaxNumReadCoils
  /\ ptr

\* Lines 380-381.
ReadInputsArgsOk(channel, node, num, ptr) ==
  /\ channel # NULL
  /\ node <= TBX_MB_TP_NODE_ADDR_MAX
  /\ num >= 1
  /\ num <= MaxNumReadInputs
  /\ ptr

\* Lines 545-546.
ReadHoldingRegsArgsOk(channel, node, num, ptr) ==
  /\ channel # NULL
  /\ node <= TBX_MB_TP_NODE_ADDR_MAX
  /\ num >= 1
  /\ num <= MaxNumReadHoldingRegs
  /\ ptr

\* Lines 589-590.
WriteCoilsArgsOk(channel, node, num, ptr) ==
  /\ channel # NULL
  /\ node <= TBX_MB_TP_NODE_ADDR_MAX
  /\ num >= 1
  /\ num <= MaxNumWriteCoils
  /\ ptr

\* Lines 633-634.
WriteHoldingRegsArgsOk(channel, node, num, ptr) ==
  /\ channel # NULL
  /\ node <= TBX_MB_TP_NODE_ADDR_MAX
  /\ num >= 1
  /\ num <= MaxNumWriteHoldingRegs
  /\ ptr

\* A whole call of an unimplemented operation: the parameter check, the type
\* assertion, the dummy write to element 0 (reads only), result TBX_ERROR.
StubCall(op, ok, writes, channel, node, addr, num, ptr) ==
  /\ pc = "idle"
  /\ call' = [ NoCall EXCEPT !.op = op, !.channel = channel, !.node = node,
                 !.addr = addr, !.num = num, !.ptr = ptr,
                 !.asserted = \/ ~ok
                              \/ ctx[channel].type # TBX_MB_CLIENT_CONTEXT_TYPE ]
  /\ out' = IF ok /\ writes THEN (0 :> 0) ELSE << >>
  /\ pc' = "ret"
  /\ UNCHANGED << io, handles, ctx, sem, pool, tp, wire, evQueue, used >>

\* Lines 319-346.
TbxMbClientReadCoils(channel, node, addr, num, ptr) ==
  StubCall("ReadCoils", ReadCoilsArgsOk(channel, node, num, ptr), TRUE,
           channel, node, addr, num, ptr)

\* Lines 365-392.
TbxMbClientReadInputs(channel, node, addr, num, ptr) ==
  StubCall("ReadInputs", ReadInputsArgsOk(channel, node, num, ptr), TRUE,
           channel, node, addr, num, ptr)

\* Lines 530-557.
TbxMbClientReadHoldingRegs(channel, node, addr, num, ptr) ==
  StubCall("ReadHoldingRegs", ReadHoldingRegsArgsOk(channel, node, num, ptr), TRUE,
           channel, node, addr, num, ptr)

\* Lines 574-600.
TbxMbClientWriteCoils(channel, node, addr, num, ptr) ==
  StubCall("WriteCoils", WriteCoilsArgsOk(channel, node, num, ptr), FALSE,
           channel, node, addr, num, ptr)

\* Lines 618-644.
TbxMbClientWriteHoldingRegs(channel, node, addr, num, ptr) ==
  StubCall("WriteHoldingRegs", WriteHoldingRegsArgsOk(channel, node, num, ptr), FALSE,
           channel, node, addr, num, ptr)

(* ------------------------------------------------------------------------ *)
(* Return to the caller.                                                    *)
(* ------------------------------------------------------------------------ *)
\* The caller's handles once the invocation c has returned.
HandlesAfter(h, c) ==
  IF c.op = "Create" /\ c.result # NULL
  THEN [ all |-> h.all \cup {c.result}, stale |-> h.stale \ {c.result} ]
  ELSE IF c.op = "Free" /\ c.channel # NULL
       THEN [ h EXCEPT !.stale = @ \cup {c.channel} ]
       ELSE h

\* The operation has returned; the caller is free to make its next call.
Return ==
  /\ pc = "ret"
  /\ handles' = HandlesAfter(handles, call)
  /\ pc' = "idle"
  /\ call' = NoCall
  /\ io' = NoIo
  /\ out' = << >>
  /\ UNCHANGED << ctx, sem, pool, tp, wire, evQueue, used >>

(* ------------------------------------------------------------------------ *)
(* TbxMbClientProcessEvent and the event task.                              *)
(* ------------------------------------------------------------------------ *)
\* Mutant: the semaphore is given for every event identifier.
ProcessEventGivesForAnyId(sm, e) ==
  TbxMbOsalSemGive(sm, ctx[e.context].responseSem)

\* Lines 187-212: the semaphores after the handler ran for event e.
TbxMbClientProcessEvent(sm, e) ==
  IF e.id = "PDU_RECEIVED"
  THEN TbxMbOsalSemGive(sm, ctx[e.context].responseSem)
  ELSE sm

\* The event task takes the next event and calls the handler of its context.
EventTask ==
  /\ evQueue # << >>
  /\ LET e == Head(evQueue)
         handled == ctx[e.context].processFcn IN
       /\ sem' = IF handled THEN TbxMbClientProcessEvent(sem, e) ELSE sem
       /\ io' = IF /\ handled
                   /\ e.id = "PDU_RECEIVED"
                   /\ e.context = call.channel
                   /\ pc \in {"t_take", "t_wait"}
                THEN [ io EXCEPT !.gaveSinceTx = TRUE ]
                ELSE io
  /\ evQueue' = Tail(evQueue)
  /\ UNCHANGED << pc, call, out, handles, ctx, pool, tp, wire, used >>

(* ------------------------------------------------------------------------ *)
(* Transport and bus (consumed).                                            *)
(* ------------------------------------------------------------------------ *)
Post(q, id) == Append(q, [ id |-> id, context |-> tp.channelCtx ])

\* A response arrives: the transport stores it in the response packet and
\* posts PDU_RECEIVED for its channel.
TpReceive ==
  /\ wire.pending
  /\ ~tp.rxHeld
  /\ tp.channelCtx # NULL
  /\ Len(evQueue) < MaxQueue
  /\ tp' = [ tp EXCEPT !.rxHeld = TRUE, !.rxFor = wire.req ]
  /\ wire' = [ wire EXCEPT !.pending = FALSE, !.req = NoRequest ]
  /\ evQueue' = Post(evQueue, "PDU_RECEIVED")
  /\ UNCHANGED << pc, call, io, out, handles, ctx, sem, pool, used >>

\* A response arrives while the response packet is still held, or while no
\* channel is linked: the transport discards it.
TpDiscard ==
  /\ wire.pending
  /\ tp.rxHeld \/ tp.channelCtx = NULL
  /\ wire' = [ wire EXCEPT !.pending = FALSE, !.req = NoRequest ]
  /\ UNCHANGED << pc, call, io, out, handles, ctx, sem, pool, tp, evQueue, used >>

\* The request has left: the transport posts PDU_TRANSMITTED for its channel.
TpTransmitted ==
  /\ wire.txEvent
  /\ tp.channelCtx # NULL
  /\ Len(evQueue) < MaxQueue
  /\ wire' = [ wire EXCEPT !.txEvent = FALSE ]
  /\ evQueue' = Post(evQueue, "PDU_TRANSMITTED")
  /\ UNCHANGED << pc, call, io, out, handles, ctx, sem, pool, tp, used >>

(* ------------------------------------------------------------------------ *)
(* The specification.                                                       *)
(* ------------------------------------------------------------------------ *)
Handles == handles.all \cup {NULL}

\* The argument lists of a call with count limit m: for every handle the
\* caller holds a call that passes the parameter check, unicast or
\* broadcast, and the unicast calls with one argument that the check rejects.
ArgCases(nums, m) ==
  { a \in Handles \X Nodes \X nums \X BOOLEAN :
      LET bad == (IF a[1] = NULL THEN 1 ELSE 0)
                 + (IF a[2] > TBX_MB_TP_NODE_ADDR_MAX THEN 1 ELSE 0)
                 + (IF a[3] < 1 \/ a[3] > m THEN 1 ELSE 0)
                 + (IF a[4] THEN 0 ELSE 1)
      IN \/ bad = 0
         \/ bad = 1 /\ ~IsBroadcast(a[2]) }

\* The lifecycle operations of the caller thread.
Lifecycle ==
  \/ pc = "idle" /\ \E rt \in Waits, td \in Waits : CreateCall(Tp, rt, td)
  \/ CreateCall(NULL, MaxWait, MaxWait)
  \/ CreateAlloc
  \/ CreateInit
  \/ CreateLinkChannel
  \/ CreateLinkTransport
  \/ \E h \in Handles : FreeCall(h)
  \/ FreeSem
  \/ FreeCritical
  \/ FreeCriticalEnd
  \/ FreeRelease

\* A call of TbxMbClientReadInputRegs up to the end of the semaphore wait
\* when no event arrives.
Request ==
  \/ /\ pc = "idle"
     /\ \E a \in Addrs, c \in ArgCases(Nums8(MaxNumReadInputRegs), MaxNumReadInputRegs) :
          ReadInputRegsCall(c[1], c[2], a, c[3], c[4])
  \/ ReadInputRegsGetTx
  \/ TransceiveTransmit
  \/ TransceiveTakeBlock
  \/ Tick
  \/ TransceiveTimeout
  \/ Return

\* The rest of the call: a signalled wait and the response.
Response ==
  \/ TransceiveTakeSignal
  \/ ReadInputRegsGetRx
  \/ ReadInputRegsValidate
  \/ ReadInputRegsDone

\* Calls of the five operations that are not implemented yet.
Stubs ==
  /\ pc = "idle"
  /\ \E a \in Addrs :
       \/ \E c \in ArgCases(Nums16(MaxNumReadCoils), MaxNumReadCoils) :
            TbxMbClientReadCoils(c[1], c[2], a, c[3], c[4])
       \/ \E c \in ArgCases(Nums16(MaxNumReadInputs), MaxNumReadInputs) :
            TbxMbClientReadInputs(c[1], c[2], a, c[3], c[4])
       \/ \E c \in ArgCases(Nums8(MaxNumReadHoldingRegs), MaxNumReadHoldingRegs) :
            TbxMbClientReadHoldingRegs(c[1], c[2], a, c[3], c[4])
       \/ \E c \in ArgCases(Nums16(MaxNumWriteCoils), MaxNumWriteCoils) :
            TbxMbClientWriteCoils(c[1], c[2], a, c[3], c[4])
       \/ \E c \in ArgCases(Nums8(MaxNumWriteHoldingRegs), MaxNumWriteHoldingRegs) :
            TbxMbClientWriteHoldingRegs(c[1], c[2], a, c[3], c[4])

\* The event task, the transport and the bus.
Environment ==
  \/ EventTask
  \/ TpReceive
  \/ TpDiscard
  \/ TpTransmitted

\* The client channel in its environment: lifecycle, requests, responses.
Next == Lifecycle \/ Request \/ Response \/ Environment

Spec == Init /\ [][Next]_vars

\* All six operations called on a bus where no server answers.
NextApi == Lifecycle \/ Request \/ Stubs

SpecApi == Init /\ [][NextApi]_vars

\* The two byte-order helpers on their own: every uint16_t value is stored
\* into the first two payload bytes of a packet and extracted from there.
UInt16Values == 0..65535

InitHelpers ==
  /\ pc = "h_store"
  /\ \E v \in UInt16Values : call = [ NoCall EXCEPT !.op = "Helpers", !.addr = v ]
  /\ io = NoIo
  /\ out = << >>
  /\ handles = [ all |-> {}, stale |-> {} ]
  /\ ctx = [ b \in Blocks |-> BlankCtx ]
  /\ sem = [ b \in Blocks |-> [ alive |-> FALSE, count |-> 0 ] ]
  /\ pool = [ free |-> {}, made |-> 0 ]
  /\ tp = [ channelCtx |-> NULL, isClient |-> FALSE,
            txPacket |-> NoPacket, rxHeld |-> FALSE, rxFor |-> NoRequest ]
  /\ wire = [ pending |-> FALSE, req |-> NoRequest, txEvent |-> FALSE ]
  /\ evQueue = << >>
  /\ used = [ creates |-> 0, requests |-> 0 ]

\* TbxMbClientStoreUInt16BE(value, &packet->pdu.data[0]).
StoreUInt16 ==
  /\ pc = "h_store"
  /\ tp' = [ tp EXCEPT !.txPacket.data = TbxMbClientStoreUInt16BE(call.addr) ]
  /\ pc' = "h_extract"
  /\ UNCHANGED << call, io, out, handles, ctx, sem, pool, wire, evQueue, used >>

\* value = TbxMbClientExtractUInt16BE(&packet->pdu.data[0]).
ExtractUInt16 ==
  /\ pc = "h_extract"
  /\ call' = [ call EXCEPT !.num = TbxMbClientExtractUInt16BE(tp.txPacket.data, 0) ]
  /\ pc' = "h_done"
  /\ UNCHANGED << io, out, handles, ctx, sem, pool, tp, wire, evQueue, used >>

NextHelpers == StoreUInt16 \/ ExtractUInt16

SpecHelpers == InitHelpers /\ [][NextHelpers]_vars

\* The caller thread keeps running: it executes its next statement whenever
\* it is not blocked, and time passes while it waits in TbxMbOsalSemTake.
\* Nothing is assumed of the event task, the transport or the bus.
CallerRuns == WF_vars(Lifecycle \/ Request \/ Response)

SpecLive == Init /\ [][Next]_vars /\ CallerRuns

(* ------------------------------------------------------------------------ *)
(* Properties.                                                              *)
(* ------------------------------------------------------------------------ *)
\* TbxMbClientReadInputRegs has returned to its caller.
ReadInputRegsReturned == pc = "ret" /\ call.op = "ReadInputRegs"

\* The request of the current invocation is unicast / broadcast.
Unicast == call.node # 0
Broadcast == call.node = 0

\* C1: a unicast request whose transmit was accepted and for which no
\* PDU-received event reached the handler between the transmit and the end
\* of the wait returns failure.
C1_NoEventMeansFailure ==
  (ReadInputRegsReturned /\ Unicast /\ io.txRes = "ok" /\ ~io.gaveSinceTx)
    => call.result = TBX_ERROR

\* C2: a broadcast request whose transmit was accepted has result success
\* after the semaphore wait, whether the wait timed out or was signalled.
C2_BroadcastSucceeds ==
  (call.op = "ReadInputRegs" /\ Broadcast /\ io.txRes = "ok"
     /\ io.took \in {"timeout", "signal"})
    => call.result = TBX_OK /\ pc = "ret"

\* C2 witness: a broadcast returned success after its wait was signalled.
C2_Witness ==
  /\ ReadInputRegsReturned /\ Broadcast /\ io.txRes = "ok"
  /\ io.took = "signal" /\ io.gaveSinceTx /\ call.result = TBX_OK

\* C3: a broadcast never returns before the whole turnaround delay has
\* passed since its transmit.
C3_BroadcastWaitsTurnaround ==
  (ReadInputRegsReturned /\ Broadcast /\ io.txRes = "ok")
    => io.waited >= ctx[call.channel].turnaroundDelay

\* C4: at every transmit submission the semaphore holds no pending give.
C4_NoPendingGiveAtTransmit ==
  io.transmit > 0 => io.semAtTx = 0

\* C5: when the transmit submission fails the operation returns failure at
\* once: no semaphore wait, no response buffer, no reception-done.
C5_TransmitFailure ==
  io.txRes = "error"
    => /\ pc = "ret"
       /\ call.result = TBX_ERROR
       /\ io.take = 0 /\ io.waited = 0 /\ io.getRx = 0 /\ io.rxDone = 0

\* C5 witness: a call has returned after its transmit was refused.
C5_Witness ==
  ReadInputRegsReturned /\ io.transmit = 1 /\ io.txRes = "error"

\* C6: for a unicast call whose transceive succeeded and that obtained the
\* response buffer, the result is success exactly if the response node is
\* the request node, the exception bit is clear, the byte count is count*2
\* and the data length is byte count + 1; on success out[i] is the big-endian
\* value of payload bytes 1+2i and 2+2i.
C6_ValidationAndUnpack ==
  (ReadInputRegsReturned /\ Unicast /\ io.rxp)
    => LET rx == io.rx
           wellFormed == /\ rx.node = call.node
                         /\ rx.code < 128
                         /\ rx.data[1] = call.num * 2
                         /\ rx.dataLen = rx.data[1] + 1
       IN /\ (call.result = TBX_OK) <=> wellFormed
          /\ call.result = TBX_OK
               => /\ DOMAIN out = 0..(call.num - 1)
                  /\ \A i \in 0..(call.num - 1) :
                       out[i] = rx.data[2 + 2 * i] * 256 + rx.data[3 + 2 * i]

\* C6 witness: count 3 from node 5 answered with byte count 6 and data
\* 0,255 1,0 1,1 gives out = 255, 256, 257 and success.
C6_Witness ==
  /\ ReadInputRegsReturned /\ call.node = 5 /\ call.num = 3
  /\ io.rx.code = 4 /\ io.rx.data = << 6, 0, 255, 1, 0, 1, 1 >>
  /\ call.result = TBX_OK
  /\ out = (0 :> 255) @@ (1 :> 256) @@ (2 :> 257)

\* C7: per invocation reception-done is called once when the request is
\* unicast and the transceive succeeded, whatever the validation says, and
\* not at all on every other path.
C7_ReceptionDoneOnce ==
  ReadInputRegsReturned
    => io.rxDone = IF Unicast /\ io.txRes = "ok" /\ io.took = "signal"
                   THEN 1 ELSE 0

\* C7 witness: a response that failed validation was released once.
C7_Witness ==
  ReadInputRegsReturned /\ io.valid = "invalid" /\ io.rxDone = 1

\* The count range the interface declares for an operation.
DeclaredMax(op) ==
  CASE op \in {"ReadCoils", "ReadInputs"} -> 2000
    [] op \in {"ReadInputRegs", "ReadHoldingRegs"} -> 125
    [] op = "WriteCoils" -> 1968
    [] op = "WriteHoldingRegs" -> 123

\* C8: a call of one of the six operations with a count outside the
\* declared range returns failure, calls nothing of the transport and does
\* not wait on the semaphore.
C8_CountOutOfRange ==
  (call.op \in Ops /\ (call.num < 1 \/ call.num > DeclaredMax(call.op)))
    => /\ pc = "ret"
       /\ call.result = TBX_ERROR
       /\ io.getTx = 0 /\ io.transmit = 0 /\ io.getRx = 0 /\ io.rxDone = 0
       /\ io.take = 0 /\ io.waited = 0

\* C8 witness: read input registers with count 126 on a live channel.
C8_Witness ==
  /\ ReadInputRegsReturned /\ call.num = 126 /\ call.ptr
  /\ call.channel # NULL /\ ctx[call.channel].type = TBX_MB_CLIENT_CONTEXT_TYPE

\* C9: a call with a handle that has been freed never dereferences the
\* channel's null transport reference.
C9_StaleHandleRejected ==
  (call.op \in Ops \cup {"Free"} /\ call.channel \in handles.stale)
    => io.fault = "none"

\* C10: when read input registers returns failure, no element of the
\* caller's output array has been written.
C10_FailureLeavesOut ==
  (ReadInputRegsReturned /\ call.result # TBX_OK) => DOMAIN out = {}

\* C10 witness: count 3 answered with byte count 4: failure, out untouched.
C10_Witness ==
  /\ ReadInputRegsReturned /\ call.num = 3 /\ io.rxp
  /\ io.rx.node = call.node /\ io.rx.data[1] = 4 /\ io.rx.dataLen = 5
  /\ call.result = TBX_ERROR /\ DOMAIN out = {} /\ io.rxDone = 1

\* C11: from the moment transmit is invoked, the request buffer of a read
\* input registers call holds the requested node, function code 4, payload
\* length 4 and the payload addr high, addr low, count high, count low.
C11_RequestBuffer ==
  (call.op = "ReadInputRegs" /\ (pc = "t_tx" \/ io.transmit > 0))
    => /\ tp.txPacket.node = call.node
       /\ tp.txPacket.code = 4
       /\ tp.txPacket.dataLen = 4
       /\ tp.txPacket.data = << call.addr \div 256, call.addr % 256,
                                call.num \div 256, call.num % 256 >>

\* C11 witness: addr 100, count 3 to node 5 was transmitted as 0,100,0,3.
C11_Witness ==
  /\ call.op = "ReadInputRegs" /\ io.transmit = 1
  /\ call.node = 5 /\ call.addr = 100 /\ call.num = 3
  /\ tp.txPacket.data = << 0, 100, 0, 3 >>

\* The current invocation is one of the six operations, its arguments pass
\* the declared ranges and its handle is that of a live channel.
ValidCallOnLiveChannel ==
  /\ call.op \in Ops
  /\ call.channel # NULL
  /\ ctx[call.channel].type = TBX_MB_CLIENT_CONTEXT_TYPE
  /\ call.node <= 247
  /\ call.num >= 1 /\ call.num <= DeclaredMax(call.op)
  /\ call.ptr

\* C12: write holding registers to node 0 (broadcast) with valid arguments
\* on a live channel returns success.
C12_WriteHoldingRegsBroadcast ==
  (pc = "ret" /\ call.op = "WriteHoldingRegs" /\ ValidCallOnLiveChannel
     /\ call.node = 0)
    => call.result = TBX_OK

\* C13: each of the six operations, called with valid arguments on a live
\* channel whose transport grants the request buffer, has invoked transmit
\* exactly once and waited on the semaphore at most once when it returns.
C13_TransmitOncePerCall ==
  (pc = "ret" /\ ValidCallOnLiveChannel /\ ~(io.getTx > 0 /\ io.transmit = 0))
    => io.transmit = 1 /\ io.take <= 1

\* The live channel contexts that reference transport t.
LiveChannelsOf(t) ==
  { b \in Blocks : ctx[b].type = TBX_MB_CLIENT_CONTEXT_TYPE /\ ctx[b].tpCtx = t }

\* C14: between calls at most one live channel references the transport,
\* and the transport's back-reference points to that channel.
C14_OneChannelPerTransport ==
  pc = "idle"
    => /\ Cardinality(LiveChannelsOf(Tp)) <= 1
       /\ \A b \in LiveChannelsOf(Tp) : tp.channelCtx = b

\* C15: every invocation of a public operation eventually returns to its
\* caller.
C15_EveryCallReturns ==
  (pc \notin {"idle", "ret"}) ~> (pc = "ret")

\* C16: a 16-bit value v is stored as the bytes v div 256, v mod 256, and
\* extracting the stored bytes gives v back.
C16_StoreExtractRoundTrip ==
  /\ pc \in {"h_extract", "h_done"}
       => tp.txPacket.data = << call.addr \div 256, call.addr % 256 >>
  /\ pc = "h_done" => call.num = call.addr

\* C16 witness: 4660 (0x1234) was stored as 18, 52 and read back as 4660.
C16_Witness ==
  /\ pc = "h_done" /\ call.addr = 4660
  /\ tp.txPacket.data = << 18, 52 >> /\ call.num = 4660

\* C17: when the first allocation of create fails, TbxMemPoolCreate is
\* called once, for one block, and the allocation is tried once more; when
\* that succeeds create returns the handle of an initialised channel, and
\* when it fails create grows nothing more, leaves the transport as it was
\* and returns null.
C17_GrowOnceRetryOnce ==
  [][ /\ (pc = "c_alloc" /\ pc' # "c_alloc" /\ pool.free = {})
           => /\ io'.alloc = 2 /\ io'.grow = 1
              /\ pool'.made \in {pool.made, pool.made + 1}
              /\ IF pool'.made = pool.made + 1
                 THEN pc' = "c_init" /\ call'.channel \in Blocks
                 ELSE /\ pc' = "ret" /\ call'.result = NULL
                      /\ tp' = tp /\ pool' = pool
      /\ (pc = "ret" /\ call.op = "Create" /\ io.alloc = 2)
           => IF call.channel # NULL
              THEN /\ call.result = call.channel
                   /\ ctx[call.result].type = TBX_MB_CLIENT_CONTEXT_TYPE
              ELSE call.result = NULL /\ io.grow = 1
    ]_vars

\* C17 witness: create has returned a handle after growing the pool.
C17_Witness ==
  /\ pc = "ret" /\ call.op = "Create" /\ io.alloc = 2 /\ io.grow = 1
  /\ call.result # NULL /\ pool.made = 1

\* C18: create called with a null transport returns null at once: nothing
\* is allocated, the pool is not grown, no semaphore is created and
\* neither the transport nor any channel context changes.
C18_NullTransport ==
  [][ /\ (pc = "idle" /\ call'.op = "Create" /\ call'.transport = NULL)
           => /\ pc' = "ret" /\ call'.result = NULL
              /\ UNCHANGED << ctx, sem, pool, tp, io >>
      /\ (call.op = "Create" /\ call.transport = NULL)
           => /\ pc = "ret" /\ call.result = NULL
              /\ io.alloc = 0 /\ io.grow = 0
    ]_vars

\* C18 witness: create(NULL, ...) has returned null.
C18_Witness ==
  pc = "ret" /\ call.op = "Create" /\ call.transport = NULL /\ call.result = NULL

\* C19: when the event handler is invoked for a context whose type tag is
\* not the client tag, no semaphore and no other state changes.
C19_MismatchedTagNoOp ==
  [][ ( /\ evQueue # << >>
        /\ evQueue' = Tail(evQueue)
        /\ ctx[Head(evQueue).context].processFcn
        /\ ctx[Head(evQueue).context].type # TBX_MB_CLIENT_CONTEXT_TYPE )
      => UNCHANGED << sem, ctx, tp, pool >>
    ]_vars

\* C20: in every state outside the critical section of free, every channel
\* context and the transport either reference each other or neither
\* references the other.
C20_CrosslinkConsistent ==
  pc # "f_inval"
    => \A b \in Blocks : (ctx[b].tpCtx = Tp) <=> (tp.channelCtx = b)

\* C21: whenever the event handler is invoked for a context that still
\* carries the client tag, the response semaphore of that context has not
\* been released.
C21_NoHalfTornDownChannel ==
  [][ ( /\ evQueue # << >>
        /\ evQueue' = Tail(evQueue)
        /\ ctx[Head(evQueue).context].processFcn
        /\ ctx[Head(evQueue).context].type = TBX_MB_CLIENT_CONTEXT_TYPE )
      => sem[ctx[Head(evQueue).context].responseSem].alive
    ]_vars

\* C22: the handler, invoked for a context that carries the client tag,
\* gives the response semaphore of that context for a PDU-received event
\* and changes nothing else; for a PDU-transmitted event it leaves every
\* semaphore and context as it was, and the caller stays where it is.
C22_GiveOnlyOnReceived ==
  [][ ( /\ evQueue # << >>
        /\ evQueue' = Tail(evQueue)
        /\ ctx[Head(evQueue).context].processFcn
        /\ ctx[Head(evQueue).context].type = TBX_MB_CLIENT_CONTEXT_TYPE )
      => LET e == Head(evQueue)
             s == ctx[e.context].responseSem
         IN /\ ctx' = ctx /\ pc' = pc /\ call' = call
            /\ IF e.id = "PDU_RECEIVED"
               THEN /\ sem'[s].count = 1
                    /\ \A b \in Blocks \ {s} : sem'[b] = sem[b]
                    /\ sem'[s].alive = sem[s].alive
               ELSE e.id = "PDU_TRANSMITTED" /\ sem' = sem
    ]_vars

\* C22 witness: a caller is blocked in the wait, the PDU-transmitted and
\* the PDU-received event of its request have both been handled, and the
\* semaphore holds the one give.
C22_Witness ==
  /\ pc = "t_wait" /\ io.gaveSinceTx /\ ~wire.txEvent /\ evQueue = << >>
  /\ sem[ctx[call.channel].responseSem].count = 1

\* C23: within one read input registers invocation each transport call and
\* the semaphore wait happen at most once and only in the order get-tx,
\* transmit, wait, get-rx, reception-done; the request buffer is written
\* only before transmit, the response buffer is obtained only after the wait
\* ended with a signal, and it is not read once reception-done was called.
C23_CallOrder ==
  /\ [](call.op = "ReadInputRegs"
          => /\ io.getTx <= 1 /\ io.transmit <= 1 /\ io.take <= 1
             /\ io.getRx <= 1 /\ io.rxDone <= 1
             /\ io.transmit > 0 => io.getTx = 1
             /\ io.take > 0 => io.transmit = 1
             /\ io.getRx > 0 => io.take = 1 /\ io.took = "signal"
             /\ io.rxDone > 0 => io.getRx = 1 /\ pc = "ret"
             /\ pc = "r_validate" => io.rxp /\ io.rxDone = 0)
  /\ [][ tp'.txPacket # tp.txPacket
           => pc = "r_gettx" /\ io.getTx = 0 /\ io.transmit = 0 ]_vars

\* C23 witness: an invocation has made all five calls, once each.
C23_Witness ==
  /\ ReadInputRegsReturned /\ io.getTx = 1 /\ io.transmit = 1 /\ io.take = 1
  /\ io.took = "signal" /\ io.getRx = 1 /\ io.valid = "valid" /\ io.rxDone = 1

\* C24: a unicast read input registers call returns success only if the
\* function code of the response it decoded is 4.
C24_FunctionCodeChecked ==
  (ReadInputRegsReturned /\ Unicast /\ io.rxp /\ call.result = TBX_OK)
    => io.rx.code = 4

\* C25: when the transport refuses write access to the request buffer,
\* read input registers returns failure without transmit, without a
\* semaphore wait and without get-rx or reception-done.
C25_NoTxBuffer ==
  (call.op = "ReadInputRegs" /\ io.getTx > 0 /\ ~io.txp)
    => /\ pc = "ret"
       /\ call.result = TBX_ERROR
       /\ io.transmit = 0 /\ io.take = 0 /\ io.waited = 0
       /\ io.getRx = 0 /\ io.rxDone = 0

\* C25 witness: a call on a live channel has returned after the transport
\* refused the request buffer.
C25_Witness ==
  /\ ReadInputRegsReturned /\ io.getTx = 1 /\ ~io.txp
  /\ ctx[call.channel].type = TBX_MB_CLIENT_CONTEXT_TYPE

\* C26: when, after a successful unicast transceive, the transport returns
\* no response buffer, read input registers returns failure, writes no
\* element of the output array and calls reception-done once.
C26_NoRxBuffer ==
  (ReadInputRegsReturned /\ io.getRx > 0 /\ ~io.rxp)
    => /\ call.result = TBX_ERROR
       /\ DOMAIN out = {}
       /\ io.rxDone = 1

\* C26 witness: a unicast call whose wait was signalled got no response
\* buffer and has returned.
C26_Witness ==
  /\ ReadInputRegsReturned /\ Unicast /\ io.txRes = "ok" /\ io.took = "signal"
  /\ io.getRx = 1 /\ ~io.rxp /\ io.rxDone = 1 /\ call.result = TBX_ERROR

====
